---- MODULE Spec2Model ----
(***************************************************************************)
(* Model of the image style-transfer page (src/unnamed/part_000, the page  *)
(* script) : the upload handler, the generation controller, the download   *)
(* handler and the UI helpers showError / setLoading; and of its service   *)
(* worker (src/sw.js) : the install and fetch listeners.                   *)
(*                                                                         *)
(* JavaScript strings that the code takes apart (data URLs, mime types,    *)
(* base64 text) are tuples of one-character strings; user-facing messages  *)
(* are TLA+ strings.  null and undefined are the tuples Null and Undefined,*)
(* which no character string equals.                                       *)
(***************************************************************************)
EXTENDS Integers, Sequences, FiniteSets, TLC

\* ---------------------------------------------------------------- bounds
\* Most file reads that may be pending at once.
MaxReads == 2
\* Most generation requests the model lets be in flight at once.
MaxRequests == 2
\* Longest list of parts in a response.
MaxParts == 2

\* ------------------------------------------------------- JavaScript values
Null == <<"null">>
Undefined == <<"undefined">>

\* JavaScript truthiness of a string-or-null value, as tested by `!x`.
Falsy(v) == v = Null \/ v = Undefined \/ v = <<>>

\* String conversion inside a template literal `${v}`.
JsString(v) ==
  IF v = Undefined THEN <<"u","n","d","e","f","i","n","e","d">>
  ELSE IF v = Null THEN <<"n","u","l","l">>
  ELSE v

\* String.prototype.split(sep) for a one-character separator.
RECURSIVE Split(_, _)
Split(s, sep) ==
  IF \A i \in 1..Len(s) : s[i] # sep
  THEN <<s>>
  ELSE LET k == CHOOSE i \in 1..Len(s) :
                  s[i] = sep /\ \A j \in 1..(i-1) : s[j] # sep
       IN <<SubSeq(s, 1, k-1)>> \o Split(SubSeq(s, k+1, Len(s)), sep)

\* arr[i] with JavaScript's 0-based index: undefined past the end.
JsIndex(arr, i) == IF i + 1 <= Len(arr) THEN arr[i+1] ELSE Undefined

\* `data:${mime};base64,${data}`
DataUri(mime, data) ==
  <<"d","a","t","a",":">> \o JsString(mime)
    \o <<";","b","a","s","e","6","4",",">> \o JsString(data)

\* ------------------------------------------------------------- the inputs
PNG == <<"i","m","a","g","e","/","p","n","g">>
JPEG == <<"i","m","a","g","e","/","j","p","e","g">>
B64A == <<"Q","U","J","D">>
B64B == <<"R","E","V","G">>

\* A File: its name, its type (empty when the browser cannot tell) and its
\* content, already in base64.
Files ==
  { [name |-> "a.png",  type |-> PNG,   b64 |-> B64A],
    [name |-> "b.jpg",  type |-> JPEG,  b64 |-> B64B],
    [name |-> "c",      type |-> <<>>,  b64 |-> B64A] }

\* No file in the input (imageUpload.files is empty, imageUpload.value '').
NoFile == [name |-> "", type |-> <<>>, b64 |-> <<>>]

\* What FileReader.readAsDataURL leaves in reader.result: null when the read
\* failed, else the data URL of the file.
ReaderResults(file) == {Null, DataUri(file.type, file.b64)}


\* The parts a response may carry.
TextPart == [text |-> "caption"]
InlinePart(mime, data) == [inlineData |-> [mimeType |-> mime, data |-> data]]
Parts == {TextPart, InlinePart(PNG, B64A), InlinePart(JPEG, B64B)}

\* Inline parts whose mime type has no subtype, or is empty.  They matter to
\* the download's file name only and come alone in their response.
IMAGE == <<"i","m","a","g","e">>
OddParts == {InlinePart(IMAGE, B64A), InlinePart(<<>>, B64A)}

RECURSIVE SeqsUpTo(_, _)
SeqsUpTo(S, n) ==
  IF n = 0 THEN {<<>>}
  ELSE LET shorter == SeqsUpTo(S, n - 1)
       IN shorter \cup {Append(s, x) : s \in {t \in shorter : Len(t) = n - 1}, x \in S}

\* How the remote call settles: it rejects, it resolves with nothing to read
\* (response undefined), with a response without candidates, or with a list
\* of parts.
Outcomes ==
  { [kind |-> "rejected", parts |-> <<>>],
    [kind |-> "undefined", parts |-> <<>>],
    [kind |-> "nocandidates", parts |-> <<>>] }
    \cup { [kind |-> "parts", parts |-> p] : p \in SeqsUpTo(Parts, MaxParts) }
\* The same, and the responses that carry one odd inline part.
OutcomesWithOdd ==
  Outcomes \cup { [kind |-> "parts", parts |-> <<p>>] : p \in OddParts }

\* The three ways a settled call can go, told from the outcome alone.
HasInlinePart(outcome) ==
  \E k \in 1..Len(outcome.parts) : "inlineData" \in DOMAIN outcome.parts[k]
OutcomeClass(outcome) ==
  IF outcome.kind \in {"rejected", "undefined"} THEN "callFailed"
  ELSE IF HasInlinePart(outcome) THEN "callImage"
  ELSE "callNoImage"

\* ------------------------------------------------------------ the messages
PlaceholderText == "Your stylized image will appear here."
MsgUpload == "Could not process the uploaded file."
MsgNoImage == "Please upload an image first."
MsgNoResult == "The model did not return an image. Please try again."
MsgFailed == "Failed to generate image. Please check your connection and try again."
MsgNoDownload == "No image available to download."
ErrorColor == "var(--error-color)"

\* Date.now() at the download click, as decimal digits.
Timestamps == { <<"1","7">>, <<"4","2">> }
\* One of them, for the specifications in which the file name plays no part.
SomeTime == <<"1","7">>

\* ------------------------------------------------- the service worker's data
CACHE_NAME == "image-style-transfer-v1"
urlsToCache ==
  << "/", "/index.html", "/index.css", "/index.js", "/icon.svg",
     "https://esm.sh/@google/genai@1.0.0" >>
ManifestUrls == {urlsToCache[k] : k \in 1..Len(urlsToCache)}

\* What a fetch from the network settles with: a response, told by its body,
\* or a failure (the promise rejects, or for addAll the status is not ok).
NetworkError == "NetworkError"
NetworkBodies == {"v1", "v2"}
NetworkResults == NetworkBodies \cup {NetworkError}

\* The requests the pages under the worker's scope send.
Requests ==
  { [url |-> u, method |-> "GET"] :
      u \in ManifestUrls \cup {"/index.html?source=pwa", "/legacy.js"} }
    \cup { [url |-> "/index.html", method |-> "POST"] }

\* The origin's cache storage when the worker is registered: empty, or with
\* the cache that a release under an earlier cache name has left (the worker
\* deletes no cache).
OldCache ==
  [ name |-> "image-style-transfer-v0",
    entries |-> { [url |-> "/index.html", body |-> "v0"],
                  [url |-> "/legacy.js", body |-> "v0"] } ]
InitialStorages == { <<>>, <<OldCache>> }

VARIABLES
  base64ImageData,  \* the app state: base64 of the uploaded image, or null
  mimeType,         \* the app state: its mime type, or null
  dom,              \* the elements' fields and classes the script touches
  reads,            \* the files whose read is pending, in selection order
  inFlight,         \* the number of generation calls in flight
  lastEvent,        \* history: the handler step that ran last, with its input
  lastSelected,     \* history: the file selected last (kept by SpecOrder only)
  storage,          \* the origin's caches, in the order of their creation
  worker,           \* the service worker's state in its life cycle
  swEvent           \* history: the worker's event handled last, with its input

pageVars == <<base64ImageData, mimeType, dom, reads, inFlight, lastEvent>>
swVars == <<storage, worker, swEvent>>
vars == <<pageVars, lastSelected, swVars>>

RemoveAt(s, i) == SubSeq(s, 1, i - 1) \o SubSeq(s, i + 1, Len(s))

\* The history variable's values: the step's name, the file it was about
\* (NoFile when it has none) and, for a call that settled with an inline
\* part, the inline part of least index in the response (NoInline otherwise),
\* and for a download the link that was clicked (NoLink otherwise).
NoInline == [mimeType |-> <<>>, data |-> <<>>]
LeastInline(outcome) ==
  IF HasInlinePart(outcome)
  THEN LET k == CHOOSE i \in 1..Len(outcome.parts) :
                  /\ "inlineData" \in DOMAIN outcome.parts[i]
                  /\ \A j \in 1..(i-1) : "inlineData" \notin DOMAIN outcome.parts[j]
       IN outcome.parts[k].inlineData
  ELSE NoInline
NoLink == [href |-> <<>>, download |-> <<>>]
Event(op, file, inline) ==
  [op |-> op, file |-> file, inline |-> inline, link |-> NoLink]
DownloadEvent(link) ==
  [op |-> "download", file |-> NoFile, inline |-> NoInline, link |-> link]

\* --------------------------------------------------------------- helpers

\* fileToGenerativePart: what the promise settles with once the reader has
\* finished with `result`.  Rejected stands for the rejected promise.
Rejected == [rejected |-> TRUE]
\* Variant: the part of the data URL before the comma is taken as the data.
FileToGenerativePart_Index0(file, result) ==
  IF result # Null
  THEN [mimeType |-> file.type, data |-> JsIndex(Split(result, ","), 0)]
  ELSE Rejected
\* Variant: no test of the reader's result, the promise always resolves.
FileToGenerativePart_NoTypeCheck(file, result) ==
  [mimeType |-> file.type,
   data |-> IF result # Null THEN JsIndex(Split(result, ","), 1) ELSE Undefined]
FileToGenerativePart(file, result) ==
  IF result # Null
  THEN [mimeType |-> file.type, data |-> JsIndex(Split(result, ","), 1)]
  ELSE Rejected

\* `Error: ${message}`
ErrorText(message) == "Error: " \o message

\* showError(message)
\* Variant: the placeholder is not revealed.
ShowError_KeepsPlaceholderHidden(d, message) ==
  [d EXCEPT !.outputText = ErrorText(message),
            !.outputColor = ErrorColor,
            !.generatedHidden = TRUE,
            !.downloadHidden = TRUE]
\* Variant: the generated image is left as it is.
ShowError_KeepsImage(d, message) ==
  [d EXCEPT !.outputText = ErrorText(message),
            !.outputColor = ErrorColor,
            !.outputHidden = FALSE,
            !.downloadHidden = TRUE]
ShowError(d, message) ==
  [d EXCEPT !.outputText = ErrorText(message),
            !.outputColor = ErrorColor,
            !.outputHidden = FALSE,
            !.generatedHidden = TRUE,
            !.downloadHidden = TRUE]

\* setLoading(isLoading)
\* Variant: the loader is shown but never hidden again.
SetLoading_LoaderStays(d, isLoading) ==
  LET d1 == [d EXCEPT !.generateDisabled = isLoading,
                      !.cameraDisabled = isLoading,
                      !.uploadAriaDisabled = isLoading,
                      !.downloadHidden = TRUE]
  IN IF isLoading
     THEN [d1 EXCEPT !.loaderHidden = FALSE,
                     !.generatedHidden = TRUE,
                     !.outputHidden = TRUE]
     ELSE d1
SetLoading(d, isLoading) ==
  LET d1 == [d EXCEPT !.generateDisabled = isLoading,
                      !.cameraDisabled = isLoading,
                      !.uploadAriaDisabled = isLoading,
                      !.downloadHidden = TRUE]
  IN IF isLoading
     THEN [d1 EXCEPT !.loaderHidden = FALSE,
                     !.generatedHidden = TRUE,
                     !.outputHidden = TRUE]
     ELSE [d1 EXCEPT !.loaderHidden = TRUE]

\* The test that opens handleGenerateClick, negated: an UploadedImage is held.
\* Variant: only the image data is tested.
HasUploadedImage_DataOnly(data, mime) == ~Falsy(data)
HasUploadedImage(data, mime) == ~Falsy(data) /\ ~Falsy(mime)

\* response.candidates?.[0]?.content?.parts || []
ResponseParts(outcome) == IF outcome.kind = "parts" THEN outcome.parts ELSE <<>>

IsInline(part) == "inlineData" \in DOMAIN part

\* The scan of the parts: the part the loop stops at, or NoPart when it runs
\* to the end.
NoPart == [none |-> TRUE]
\* Variant: the loop has no break, the last inline part stays displayed.
RECURSIVE FirstInlinePart_Last(_)
FirstInlinePart_Last(parts) ==
  IF parts = <<>> THEN NoPart
  ELSE IF IsInline(parts[Len(parts)]) THEN parts[Len(parts)]
  ELSE FirstInlinePart_Last(SubSeq(parts, 1, Len(parts) - 1))
RECURSIVE FirstInlinePart(_)
FirstInlinePart(parts) ==
  IF parts = <<>> THEN NoPart
  ELSE IF IsInline(parts[1]) THEN parts[1]
  ELSE FirstInlinePart(Tail(parts))

\* The try and catch blocks of handleGenerateClick once the call has settled
\* with `outcome`: render the first inline part, or report the failure.
\* Variant: the catch block reports with the message of the try block.
HandleResponse_OneMessage(d, outcome) ==
  IF outcome.kind \in {"rejected", "undefined"}
  THEN ShowError(d, MsgNoResult)
  ELSE LET part == FirstInlinePart(ResponseParts(outcome))
       IN IF part # NoPart
          THEN [d EXCEPT
                  !.generatedSrc = DataUri(part.inlineData.mimeType, part.inlineData.data),
                  !.generatedHidden = FALSE,
                  !.outputHidden = TRUE,
                  !.downloadHidden = FALSE]
          ELSE ShowError(d, MsgNoResult)
HandleResponse(d, outcome) ==
  IF outcome.kind \in {"rejected", "undefined"}
  THEN ShowError(d, MsgFailed)
  ELSE LET part == FirstInlinePart(ResponseParts(outcome))
       IN IF part # NoPart
          THEN [d EXCEPT
                  !.generatedSrc = DataUri(part.inlineData.mimeType, part.inlineData.data),
                  !.generatedHidden = FALSE,
                  !.outputHidden = TRUE,
                  !.downloadHidden = FALSE]
          ELSE ShowError(d, MsgNoResult)

\* imageUrl.startsWith('data:')
StartsWith(s, prefix) ==
  Len(s) >= Len(prefix) /\ SubSeq(s, 1, Len(prefix)) = prefix

\* The test that opens handleDownloadClick, negated: there is a data URI.
\* Variant: no test at all.
HasDataUri_Always(imageUrl) == TRUE
HasDataUri(imageUrl) ==
  imageUrl # <<>> /\ StartsWith(imageUrl, <<"d","a","t","a",":">>)

\* imageUrl.match(/data:([^;]+);/)?.[1] : the capture of the leftmost match,
\* Undefined when nothing matches.  A match at p is "data:" at p, then one or
\* more characters other than ';', then ';'.
RECURSIVE IndexOfFrom(_, _, _)
IndexOfFrom(s, c, q) ==
  \* the least index >= q where s holds c, 0 if none
  IF q > Len(s) THEN 0
  ELSE IF s[q] = c THEN q
  ELSE IndexOfFrom(s, c, q + 1)
RECURSIVE MatchFrom(_, _)
MatchFrom(s, p) ==
  IF p + 4 > Len(s) THEN Undefined
  ELSE IF SubSeq(s, p, p + 4) = <<"d","a","t","a",":">>
          /\ IndexOfFrom(s, ";", p + 5) > p + 5
       THEN SubSeq(s, p + 5, IndexOfFrom(s, ";", p + 5) - 1)
       ELSE MatchFrom(s, p + 1)
MatchDataMime(s) == MatchFrom(s, 1)

\* x || fallback
OrElse(x, fallback) == IF Falsy(x) THEN fallback ELSE x

\* The extension of the download's file name, from the result's URL.
\* Variant: the whole mime type is taken as the extension.
Extension_WholeMime(imageUrl) == OrElse(MatchDataMime(imageUrl), PNG)
Extension(imageUrl) ==
  LET mime == OrElse(MatchDataMime(imageUrl), PNG)
  IN OrElse(JsIndex(Split(mime, "/"), 1), <<"p","n","g">>)

\* `stylized-image-${Date.now()}.${extension}`
FileName(ts, extension) ==
  <<"s","t","y","l","i","z","e","d","-","i","m","a","g","e","-">>
    \o ts \o <<".">> \o extension

\* ---------------------------------------------- the service worker's helpers

\* caches.open(name): the storage with the cache `name` in it, created empty
\* at the end when it is not there.
CachesOpen(cs, name) ==
  IF \E k \in 1..Len(cs) : cs[k].name = name
  THEN cs
  ELSE Append(cs, [name |-> name, entries |-> {}])

\* cache.match(request): the body of the entry stored under the request's URL
\* (the whole URL, query included) for a GET request, else NoMatch (the
\* promise resolves with undefined).
NoMatch == "undefined"
CacheMatch(entries, request) ==
  IF request.method = "GET" /\ \E e \in entries : e.url = request.url
  THEN (CHOOSE e \in entries : e.url = request.url).body
  ELSE NoMatch

\* caches.match(request): the match of the first cache, in creation order,
\* that has one.
RECURSIVE CachesMatch(_, _)
CachesMatch(cs, request) ==
  IF cs = <<>> THEN NoMatch
  ELSE IF CacheMatch(Head(cs).entries, request) # NoMatch
       THEN CacheMatch(Head(cs).entries, request)
       ELSE CachesMatch(Tail(cs), request)

\* cache.addAll(urlsToCache) with the network answering fetched[u] for u:
\* the entries afterwards.  All the responses are stored, in place of older
\* entries of the same URLs, or, if one fetch failed, none is.
AddAllRejects(fetched) == \E u \in ManifestUrls : fetched[u] = NetworkError
\* Variant: the responses that did arrive are stored.
AddAll_Partial(entries, fetched) ==
  {e \in entries : e.url \notin ManifestUrls \/ fetched[e.url] = NetworkError}
    \cup {[url |-> u, body |-> fetched[u]] : u \in {x \in ManifestUrls : fetched[x] # NetworkError}}
AddAll(entries, fetched) ==
  IF AddAllRejects(fetched)
  THEN entries
  ELSE {e \in entries : e.url \notin ManifestUrls}
         \cup {[url |-> u, body |-> fetched[u]] : u \in ManifestUrls}

\* The storage with `entries` as the content of the cache `name`.
WithEntries(cs, name, entries) ==
  [k \in 1..Len(cs) |->
     IF cs[k].name = name THEN [cs[k] EXCEPT !.entries = entries] ELSE cs[k]]
EntriesOf(cs, name) ==
  IF \E k \in 1..Len(cs) : cs[k].name = name
  THEN (CHOOSE c \in {cs[k] : k \in 1..Len(cs)} : c.name = name).entries
  ELSE {}

\* The worker's history values.
NoRequest == [url |-> "", method |-> ""]
NoFetched == [u \in ManifestUrls |-> ""]
SwEvent(op, request, response, network, net, fetched) ==
  [ op |-> op, request |-> request, response |-> response,
    network |-> network, net |-> net, fetched |-> fetched ]
SwLifeEvent(op, fetched) == SwEvent(op, NoRequest, "", FALSE, "", fetched)

\* ------------------------------------------------------------ initial state
\* The page as loaded: nothing uploaded, nothing generated.
InitDom ==
  [ inputFile |-> NoFile,
    previewSrc |-> <<>>,
    previewHidden |-> TRUE,
    previewPlaceholderHidden |-> FALSE,
    generateDisabled |-> TRUE,
    cameraDisabled |-> FALSE,
    uploadAriaDisabled |-> FALSE,
    loaderHidden |-> TRUE,
    generatedSrc |-> <<>>,
    generatedHidden |-> TRUE,
    outputText |-> PlaceholderText,
    outputColor |-> "",
    outputHidden |-> FALSE,
    downloadHidden |-> TRUE ]

Init ==
  /\ base64ImageData = Null
  /\ mimeType = Null
  /\ dom = InitDom
  /\ reads = <<>>
  /\ inFlight = 0
  /\ lastEvent = Event("load", NoFile, NoInline)
  /\ lastSelected = NoFile
  /\ storage = <<>>
  /\ worker = "installing"
  /\ swEvent = SwLifeEvent("register", NoFetched)

\* ------------------------------------------------------------------ actions

\* The user picks `file` (file picker or camera): the change event runs
\* handleImageUpload up to its await, the read of the file is pending.
HandleImageUpload(file) ==
  /\ Len(reads) < MaxReads
  /\ file # dom.inputFile
  /\ dom' = [dom EXCEPT !.inputFile = file]
  /\ reads' = Append(reads, file)
  /\ lastEvent' = Event("select", file, NoInline)
  /\ UNCHANGED <<base64ImageData, mimeType, inFlight>>

\* A change event that leaves the input without a file: the handler returns.
HandleImageUploadNoFile ==
  /\ dom.inputFile # NoFile
  /\ dom' = [dom EXCEPT !.inputFile = NoFile]
  /\ lastEvent' = Event("selectNone", NoFile, NoInline)
  /\ UNCHANGED <<base64ImageData, mimeType, reads, inFlight>>

\* The read of reads[i] ends with `result` in the reader and handleImageUpload
\* resumes: the try block, or the catch block, and the finally block.
\* Variant: the input is reset at the end of the try block, not in a finally.
HandleImageUploadResume_ResetInTry(i, result) ==
  LET file == reads[i]
      part == FileToGenerativePart(file, result)
  IN /\ reads' = RemoveAt(reads, i)
     /\ lastEvent' = Event(IF result = Null THEN "readFailed" ELSE "readOk", file, NoInline)
     /\ IF part # Rejected
        THEN /\ base64ImageData' = part.data
             /\ mimeType' = part.mimeType
             /\ dom' = [dom EXCEPT
                          !.previewSrc = DataUri(part.mimeType, part.data),
                          !.previewHidden = FALSE,
                          !.previewPlaceholderHidden = TRUE,
                          !.generateDisabled = FALSE,
                          !.inputFile = NoFile]
        ELSE /\ dom' = ShowError(dom, MsgUpload)
             /\ UNCHANGED <<base64ImageData, mimeType>>
     /\ UNCHANGED inFlight
HandleImageUploadResume(i, result) ==
  LET file == reads[i]
      part == FileToGenerativePart(file, result)
  IN /\ reads' = RemoveAt(reads, i)
     /\ lastEvent' = Event(IF result = Null THEN "readFailed" ELSE "readOk", file, NoInline)
     /\ IF part # Rejected
        THEN /\ base64ImageData' = part.data
             /\ mimeType' = part.mimeType
             /\ dom' = [dom EXCEPT
                          !.previewSrc = DataUri(part.mimeType, part.data),
                          !.previewHidden = FALSE,
                          !.previewPlaceholderHidden = TRUE,
                          !.generateDisabled = FALSE,
                          !.inputFile = NoFile]
        ELSE /\ dom' = [ShowError(dom, MsgUpload) EXCEPT !.inputFile = NoFile]
             /\ UNCHANGED <<base64ImageData, mimeType>>
     /\ UNCHANGED inFlight

\* A click on the generate button (a disabled button gets no click):
\* handleGenerateClick up to its await.  The request leaves with the image
\* and the prompt; the script keeps no reference to it, so the state holds
\* only how many calls are in flight.
HandleGenerateClick ==
  /\ ~dom.generateDisabled
  /\ lastEvent' = Event("click", NoFile, NoInline)
  /\ IF ~HasUploadedImage(base64ImageData, mimeType)
     THEN /\ dom' = ShowError(dom, MsgNoImage)
          /\ UNCHANGED inFlight
     ELSE /\ inFlight < MaxRequests
          /\ dom' = SetLoading(dom, TRUE)
          /\ inFlight' = inFlight + 1
  /\ UNCHANGED <<base64ImageData, mimeType, reads>>

\* A remote call settles with `outcome` and handleGenerateClick resumes: the
\* try or catch block, then finally.
\* Variant: a call that brought no image is issued again.
HandleGenerateClickResume_Retry(outcome) ==
  /\ inFlight > 0
  /\ inFlight' = IF OutcomeClass(outcome) = "callImage" THEN inFlight - 1 ELSE inFlight
  /\ dom' = SetLoading(HandleResponse(dom, outcome), FALSE)
  /\ lastEvent' = Event(OutcomeClass(outcome), NoFile, LeastInline(outcome))
  /\ UNCHANGED <<base64ImageData, mimeType, reads>>
HandleGenerateClickResume(outcome) ==
  /\ inFlight > 0
  /\ inFlight' = inFlight - 1
  /\ dom' = SetLoading(HandleResponse(dom, outcome), FALSE)
  /\ lastEvent' = Event(OutcomeClass(outcome), NoFile, LeastInline(outcome))
  /\ UNCHANGED <<base64ImageData, mimeType, reads>>

\* A click event on the download button at time `ts`: handleDownloadClick.
\* (The class 'hidden' is styling; the listener runs whenever the event is
\* dispatched.)  The link is added, clicked and removed; the history keeps it.
HandleDownloadClick(ts) ==
  /\ IF ~HasDataUri(dom.generatedSrc)
     THEN /\ dom' = ShowError(dom, MsgNoDownload)
          /\ lastEvent' = Event("downloadRefused", NoFile, NoInline)
     ELSE /\ dom' = dom
          /\ lastEvent' = DownloadEvent(
                [ href |-> dom.generatedSrc,
                  download |-> FileName(ts, Extension(dom.generatedSrc)) ])
  /\ UNCHANGED <<base64ImageData, mimeType, reads, inFlight>>

\* The install event, with the network answering fetched[u] for the manifest
\* URL u: caches.open, then cache.addAll; waitUntil holds the worker in
\* 'installing' until the promise settles, and a rejection discards the worker.
Install(fetched) ==
  /\ worker = "installing"
  /\ LET opened == CachesOpen(storage, CACHE_NAME)
     IN storage' = WithEntries(opened, CACHE_NAME,
                               AddAll(EntriesOf(opened, CACHE_NAME), fetched))
  /\ worker' = IF AddAllRejects(fetched) THEN "redundant" ELSE "installed"
  /\ swEvent' = SwLifeEvent("install", fetched)

\* The browser activates the installed worker (sw.js has no activate listener).
Activate ==
  /\ worker = "installed"
  /\ worker' = "activated"
  /\ swEvent' = SwLifeEvent("activate", NoFetched)
  /\ UNCHANGED storage

\* The fetch event for `request`, which the network would answer with `net`:
\* respondWith the match of caches.match, or else the network's answer.
\* Variant: the network's answer to a miss is stored in the worker's cache.
Fetch_WriteBack(request, net) ==
  /\ worker = "activated"
  /\ LET response == CachesMatch(storage, request)
     IN /\ swEvent' = SwEvent("fetch", request,
                              IF response # NoMatch THEN response ELSE net,
                              response = NoMatch, net, NoFetched)
        /\ storage' =
             IF response = NoMatch /\ net # NetworkError
             THEN WithEntries(storage, CACHE_NAME,
                    EntriesOf(storage, CACHE_NAME)
                      \cup {[url |-> request.url, body |-> net]})
             ELSE storage
  /\ UNCHANGED worker
Fetch(request, net) ==
  /\ worker = "activated"
  /\ LET response == CachesMatch(storage, request)
     IN swEvent' = SwEvent("fetch", request,
                           IF response # NoMatch THEN response ELSE net,
                           response = NoMatch, net, NoFetched)
  /\ UNCHANGED <<storage, worker>>

\* The history of the selections is kept by SpecOrder alone, and the page's
\* handlers do not touch the worker.
NoOrder == UNCHANGED <<lastSelected, swVars>>

\* One step of the page: one handler runs to its await or to its end.
Next ==
  \/ \E file \in Files : HandleImageUpload(file) /\ NoOrder
  \/ HandleImageUploadNoFile /\ NoOrder
  \/ \E i \in 1..Len(reads) :
       \E result \in ReaderResults(reads[i]) :
         HandleImageUploadResume(i, result) /\ NoOrder
  \/ HandleGenerateClick /\ NoOrder
  \/ \E outcome \in Outcomes : HandleGenerateClickResume(outcome) /\ NoOrder
  \/ HandleDownloadClick(SomeTime) /\ NoOrder

Spec == Init /\ [][Next]_vars

\* The page used by a patient user, who waits for a pending read or call to
\* end before the next selection or click, and a service that may also
\* answer with one odd inline part.  Every behaviour of it is one of the page.
Idle == reads = <<>> /\ inFlight = 0
DownloadNext ==
  \/ \E file \in Files : Idle /\ HandleImageUpload(file) /\ NoOrder
  \/ HandleImageUploadNoFile /\ NoOrder
  \/ \E i \in 1..Len(reads) :
       \E result \in ReaderResults(reads[i]) :
         HandleImageUploadResume(i, result) /\ NoOrder
  \/ Idle /\ HandleGenerateClick /\ NoOrder
  \/ \E outcome \in OutcomesWithOdd : HandleGenerateClickResume(outcome) /\ NoOrder
  \/ \E ts \in Timestamps : HandleDownloadClick(ts) /\ NoOrder

SpecDownload == Init /\ [][DownloadNext]_vars

\* The page with a remote service that answers: a call in flight settles in
\* the end, and its continuation (the promise's reaction job) then runs.
\* The responses are those of at most one part: what the handler does with a
\* response is settled by its first inline part alone.
ShortOutcomes == {outcome \in Outcomes : Len(outcome.parts) <= 1}
FairNext ==
  \/ \E file \in Files : HandleImageUpload(file) /\ NoOrder
  \/ HandleImageUploadNoFile /\ NoOrder
  \/ \E i \in 1..Len(reads) :
       \E result \in ReaderResults(reads[i]) :
         HandleImageUploadResume(i, result) /\ NoOrder
  \/ HandleGenerateClick /\ NoOrder
  \/ \E outcome \in ShortOutcomes : HandleGenerateClickResume(outcome) /\ NoOrder
  \/ HandleDownloadClick(SomeTime) /\ NoOrder
SpecFair ==
  /\ Init
  /\ [][FairNext]_vars
  /\ WF_vars(\E outcome \in ShortOutcomes : HandleGenerateClickResume(outcome) /\ NoOrder)

\* The page with file reads that all succeed, and the history of which file
\* was selected last.
OrderNext ==
  \/ \E file \in Files :
       /\ HandleImageUpload(file)
       /\ lastSelected' = file
       /\ UNCHANGED swVars
  \/ HandleImageUploadNoFile /\ NoOrder
  \/ \E i \in 1..Len(reads) :
       HandleImageUploadResume(i, DataUri(reads[i].type, reads[i].b64)) /\ NoOrder
  \/ HandleGenerateClick /\ NoOrder
  \/ \E outcome \in Outcomes : HandleGenerateClickResume(outcome) /\ NoOrder

SpecOrder == Init /\ [][OrderNext]_vars

\* The service worker, from its registration on an origin whose storage is
\* one of InitialStorages; the page is left aside.
WorkerInit ==
  /\ base64ImageData = Null
  /\ mimeType = Null
  /\ dom = InitDom
  /\ reads = <<>>
  /\ inFlight = 0
  /\ lastEvent = Event("load", NoFile, NoInline)
  /\ lastSelected = NoFile
  /\ storage \in InitialStorages
  /\ worker = "installing"
  /\ swEvent = SwLifeEvent("register", NoFetched)

WorkerNext ==
  \/ \E fetched \in [ManifestUrls -> NetworkResults] :
       Install(fetched) /\ UNCHANGED <<pageVars, lastSelected>>
  \/ Activate /\ UNCHANGED <<pageVars, lastSelected>>
  \/ \E request \in Requests : \E net \in NetworkResults :
       Fetch(request, net) /\ UNCHANGED <<pageVars, lastSelected>>

SpecWorker == WorkerInit /\ [][WorkerNext]_vars

\* ------------------------------------------------------------------- claims

\* A supported image file: an image type and some content.
Supported(file) == file.type # <<>> /\ file.b64 # <<>>

\* An UploadedImage is active: both stored fields are non-empty strings.
UploadedImagePresent ==
  /\ base64ImageData \notin {Null, Undefined, <<>>}
  /\ mimeType \notin {Null, Undefined, <<>>}

\* The output area shows the error `message`: placeholder visible with the
\* error text, generated image and download button hidden.
ShowsError(d, message) ==
  /\ d.outputText = "Error: " \o message
  /\ ~d.outputHidden
  /\ d.generatedHidden
  /\ d.downloadHidden

\* C1: at most one generation request is in flight at any time.
C1_AtMostOneInFlight == inFlight <= 1

\* C2: right after a call has settled with a response that holds an inline
\* part, the generated image is displayed and the download button is visible.
C2_ImageResponseShowsDownload ==
  lastEvent.op = "callImage" => ~dom.generatedHidden /\ ~dom.downloadHidden

\* C3: while a request is in flight the generate and camera buttons are
\* disabled, the loader is visible, and the generated image and the output
\* placeholder are hidden.
C3_LoadingUi ==
  inFlight > 0 =>
    /\ dom.generateDisabled
    /\ dom.cameraDisabled
    /\ ~dom.loaderHidden
    /\ dom.generatedHidden
    /\ dom.outputHidden

\* C4: a generate click made while no UploadedImage is active shows the
\* 'Please upload an image first.' error and does not enter Loading: no
\* request is issued, the loader is not touched, and the disabled states of
\* the generate and camera buttons stay as they were.
C4_NoImageClickNeverLoads ==
  [][ (lastEvent'.op = "click" /\ ~UploadedImagePresent) =>
        /\ ShowsError(dom', MsgNoImage)
        /\ inFlight' = inFlight
        /\ dom'.loaderHidden = dom.loaderHidden
        /\ dom'.generateDisabled = dom.generateDisabled
        /\ dom'.cameraDisabled = dom.cameraDisabled ]_vars

C4_Witness ==
  /\ lastEvent.op = "click"
  /\ ~UploadedImagePresent
  /\ dom.outputText = "Error: " \o MsgNoImage

\* C5: the generate button is enabled only if an UploadedImage is present.
C5_EnabledOnlyWithImage == ~dom.generateDisabled => UploadedImagePresent

\* C6: right after a call has settled with a response without any inline
\* part, an error message is shown, the generated image is hidden and the
\* download button is hidden.
C6_NoImageResponseFails ==
  lastEvent.op = "callNoImage" => ShowsError(dom, MsgNoResult)

C6_Witness ==
  /\ lastEvent.op = "callNoImage"
  /\ dom.generatedSrc # <<>>
  /\ inFlight = 0

\* C7: right after a call has settled with a list of parts that holds an
\* inline part, the displayed result is the data URI built from the mime type
\* and data of the inline part of least index, whatever text parts precede it
\* and whatever parts follow it.
C7_FirstInlinePartWins ==
  lastEvent.op = "callImage" =>
    /\ dom.generatedSrc =
         <<"d","a","t","a",":">> \o lastEvent.inline.mimeType
           \o <<";","b","a","s","e","6","4",",">> \o lastEvent.inline.data
    /\ ~dom.generatedHidden

C7_Witness ==
  /\ lastEvent.op = "callImage"
  /\ lastEvent.inline = [mimeType |-> JPEG, data |-> B64B]
  /\ dom.generatedSrc = DataUri(JPEG, B64B)
  /\ ~dom.generatedHidden

\* C8, as stated: whether the call in flight fails or returns a response
\* without an image part, the user is shown the same message.
C8_SameMessage ==
  inFlight > 0 =>
    HandleResponse(dom, [kind |-> "rejected", parts |-> <<>>]).outputText
      = HandleResponse(dom, [kind |-> "parts", parts |-> <<TextPart>>]).outputText

\* C8, amended: both are reported in the same way, as an error in the output
\* area with the result and the download button hidden, but with two
\* messages: a failed call with MsgFailed, an image-less response with
\* MsgNoResult.
C8_SameDisplayTwoMessages ==
  /\ lastEvent.op = "callFailed" => ShowsError(dom, MsgFailed)
  /\ lastEvent.op = "callNoImage" => ShowsError(dom, MsgNoResult)
  /\ MsgFailed # MsgNoResult

C8_Witness ==
  /\ lastEvent.op = "callFailed"
  /\ dom.outputText = "Error: " \o MsgFailed

\* C9: a failed file read shows the generic upload error and leaves the
\* stored image data, the stored mime type and the generate button's
\* disabled state as they were.
C9_FailedReadKeepsUpload ==
  [][ lastEvent'.op = "readFailed" =>
        /\ ShowsError(dom', MsgUpload)
        /\ base64ImageData' = base64ImageData
        /\ mimeType' = mimeType
        /\ dom'.generateDisabled = dom.generateDisabled ]_vars

C9_Witness ==
  /\ lastEvent.op = "readFailed"
  /\ lastEvent.file.name = "b.jpg"
  /\ base64ImageData = B64A
  /\ mimeType = PNG
  /\ ~dom.generateDisabled

\* C10: right after the read of a supported image file has completed, the
\* stored UploadedImage is that file's (mime type, base64 data) pair, the
\* preview shows it, and the generate button is enabled.
C10_SuccessfulUploadStored ==
  (lastEvent.op = "readOk" /\ Supported(lastEvent.file)) =>
    /\ base64ImageData = lastEvent.file.b64
    /\ mimeType = lastEvent.file.type
    /\ dom.previewSrc =
         <<"d","a","t","a",":">> \o lastEvent.file.type
           \o <<";","b","a","s","e","6","4",",">> \o lastEvent.file.b64
    /\ ~dom.previewHidden
    /\ dom.previewPlaceholderHidden
    /\ ~dom.generateDisabled

C10_Witness ==
  /\ lastEvent.op = "readOk"
  /\ lastEvent.file.name = "b.jpg"
  /\ base64ImageData = B64B
  /\ dom.previewSrc # <<>>
  /\ reads # <<>>

\* C13: the link clicked by a download is the displayed result, saved as
\* 'stylized-image-<timestamp>.<ext>', where <ext> is the subtype of the mime
\* type that the result's URI was built from ('jpeg' for image/jpeg), and
\* 'png' when that mime type is empty or has no subtype.
SubtypeOf(mime) ==
  LET slashes == {k \in 1..Len(mime) : mime[k] = "/"}
  IN IF slashes = {} THEN <<>>
     ELSE LET k == CHOOSE x \in slashes : \A y \in slashes : x <= y
          IN SubSeq(mime, k + 1, Len(mime))
DisplayedMimes == {PNG, JPEG, IMAGE, <<>>}
C13_DownloadFileName ==
  lastEvent.op = "download" =>
    /\ lastEvent.link.href = dom.generatedSrc
    /\ \E mime \in DisplayedMimes, data \in {B64A, B64B}, ts \in Timestamps :
         /\ dom.generatedSrc =
              <<"d","a","t","a",":">> \o mime
                \o <<";","b","a","s","e","6","4",",">> \o data
         /\ lastEvent.link.download =
              <<"s","t","y","l","i","z","e","d","-","i","m","a","g","e","-">>
                \o ts \o <<".">>
                \o (IF SubtypeOf(mime) = <<>> THEN <<"p","n","g">> ELSE SubtypeOf(mime))

C13_Witness ==
  /\ lastEvent.op = "download"
  /\ dom.generatedSrc = DataUri(IMAGE, B64A)
  /\ lastEvent.link.download = FileName(<<"4","2">>, <<"p","n","g">>)

\* C14: a download click while the result's source is empty or no data URI
\* shows the 'No image available to download.' error, clicks no link, and
\* leaves the stored image data and mime type as they were.
C14_NoResultNoDownload ==
  [][ (lastEvent'.op \in {"download", "downloadRefused"}
        /\ (dom.generatedSrc = <<>>
             \/ SubSeq(dom.generatedSrc, 1, 5) # <<"d","a","t","a",":">>)) =>
        /\ lastEvent'.op = "downloadRefused"
        /\ lastEvent'.link = NoLink
        /\ ShowsError(dom', MsgNoDownload)
        /\ base64ImageData' = base64ImageData
        /\ mimeType' = mimeType ]_vars

C14_Witness ==
  /\ lastEvent.op = "downloadRefused"
  /\ dom.generatedSrc = <<>>
  /\ base64ImageData = B64A
  /\ dom.outputText = "Error: " \o MsgNoDownload

\* The steps at which a remote call has settled.
CallSettled == {"callImage", "callNoImage", "callFailed"}

\* C15: every Loading ends: whenever a call is in flight, a call settles in
\* the end (with an image, without one, by rejecting, or with a response the
\* handler trips over), and right after that the loader is hidden and the
\* generate and camera buttons are enabled.
C15_LoadingEnds ==
  (inFlight > 0) ~>
    ( /\ lastEvent.op \in CallSettled
      /\ dom.loaderHidden
      /\ ~dom.generateDisabled
      /\ ~dom.cameraDisabled )

C15_Witness ==
  /\ lastEvent.op = "callFailed"
  /\ inFlight = 0
  /\ dom.loaderHidden
  /\ ~dom.generateDisabled
  /\ ~dom.cameraDisabled

\* C16: no automatic retries: a generate click made with an UploadedImage
\* present issues exactly one call, a click made without one issues none, a
\* call that settles (with or without an image, or by failing) issues none
\* and ends exactly one, and no other step issues or ends a call.
C16_NoRetry ==
  [][ /\ (lastEvent'.op = "click" /\ UploadedImagePresent) => inFlight' = inFlight + 1
      /\ (lastEvent'.op = "click" /\ ~UploadedImagePresent) => inFlight' = inFlight
      /\ lastEvent'.op \in CallSettled => inFlight' = inFlight - 1
      /\ lastEvent'.op \notin (CallSettled \cup {"click"}) => inFlight' = inFlight ]_vars

C16_Witness ==
  /\ lastEvent.op = "callNoImage"
  /\ UploadedImagePresent
  /\ inFlight = 0
  /\ ~dom.generateDisabled

\* C17: when a run of the upload handler that had a file ends, with the read
\* succeeded or failed, the input holds no file; and a change event that
\* leaves the input without a file changes no state of the page (the input
\* itself is then empty).
C17_InputReset ==
  [][ /\ lastEvent'.op \in {"readOk", "readFailed"} => dom'.inputFile = NoFile
      /\ lastEvent'.op = "selectNone" =>
            /\ base64ImageData' = base64ImageData
            /\ mimeType' = mimeType
            /\ reads' = reads
            /\ inFlight' = inFlight
            /\ dom' = [dom EXCEPT !.inputFile = NoFile] ]_vars

C17_Witness ==
  /\ lastEvent.op = "readFailed"
  /\ lastEvent.file.name = "b.jpg"
  /\ dom.inputFile = NoFile
  /\ reads # <<>>

\* C19: once no read is pending, and all reads have succeeded, the stored
\* UploadedImage and the preview are those of the file selected last.
C19_LastSelectedWins ==
  (reads = <<>> /\ lastSelected # NoFile) =>
    /\ base64ImageData = lastSelected.b64
    /\ mimeType = lastSelected.type
    /\ dom.previewSrc =
         <<"d","a","t","a",":">> \o lastSelected.type
           \o <<";","b","a","s","e","6","4",",">> \o lastSelected.b64

\* C20: between handlers the generated image and the output placeholder are
\* never both visible, and the download button is visible only if the
\* generated image is.
C20_OutputExclusive ==
  /\ ~(~dom.generatedHidden /\ ~dom.outputHidden)
  /\ ~dom.downloadHidden => ~dom.generatedHidden

C20_Witness ==
  /\ lastEvent.op = "readFailed"
  /\ dom.generatedSrc # <<>>
  /\ dom.generatedHidden
  /\ ~dom.outputHidden

\* The entries of the cache named CACHE_NAME, none when it does not exist.
NamedCache(cs) ==
  UNION { cs[k].entries : k \in {j \in 1..Len(cs) : cs[j].name = "image-style-transfer-v1"} }

C12_InstallAllOrNothing ==
  [][ /\ swEvent'.op = "install" =>
           IF \E u \in DOMAIN swEvent'.fetched : swEvent'.fetched[u] = "NetworkError"
           THEN /\ worker' = "redundant"
                /\ NamedCache(storage') = NamedCache(storage)
           ELSE /\ worker' = "installed"
                /\ \A k \in 1..Len(urlsToCache) :
                     [url |-> urlsToCache[k], body |-> swEvent'.fetched[urlsToCache[k]]]
                       \in NamedCache(storage')
      /\ worker = "redundant" => worker' = "redundant"
      /\ swEvent'.op = "fetch" => worker = "activated"
      /\ worker' = "activated" =>
           \A k \in 1..Len(urlsToCache) :
             \E e \in NamedCache(storage') : e.url = urlsToCache[k] ]_vars

C12_Witness ==
  /\ worker = "redundant"
  /\ swEvent.op = "install"
  /\ swEvent.fetched["/icon.svg"] = "NetworkError"
  /\ swEvent.fetched["/index.html"] = "v1"
  /\ NamedCache(storage) = {}

\* C18: a fetch event leaves every cache as it was, whether the request was
\* answered from a cache or from the network.
C18_FetchKeepsCache ==
  [][ swEvent'.op = "fetch" => storage' = storage ]_vars

C18_Witness ==
  /\ swEvent.op = "fetch"
  /\ swEvent.network
  /\ swEvent.response = "v2"
  /\ swEvent.request.url = "/index.html?source=pwa"
  /\ \A e \in NamedCache(storage) : e.url # swEvent.request.url
====
